---- MODULE Spec2Model ----
(***************************************************************************)
(* Model of server.py: the webhook receiver, the per-thread conversation   *)
(* store (table chats) and the tool-calling response loop                  *)
(* (handle_email / handle_model_call).                                     *)
(*                                                                         *)
(* Every background task is a coroutine on one event loop: its steps are   *)
(* atomic between two await points.  The await points of a handling are    *)
(* the store read (SELECT), the model invocation and the store write       *)
(* (UPDATE + commit); the tool executors are synchronous calls.            *)
(***************************************************************************)
EXTENDS Integers, Sequences, FiniteSets, TLC

\* ---------------------------------------------------------------- bounds
\* largest value of settings.max_response_cycles that is explored
MaxCycles == 1
\* largest number of tool calls in one model response
MaxCalls == 2
\* number of HTTP requests the webhook receives
MaxRequests == 2

\* ------------------------------------------------------------ messages
None == "None"

Msg(role, content, name, tool_call_id, tool_calls) ==
    [role |-> role, content |-> content, name |-> name,
     tool_call_id |-> tool_call_id, tool_calls |-> tool_calls]

system_prompt == Msg("system", "system_prompt", <<>>, 0, <<>>)

UserMsg(content) == Msg("user", content, <<>>, 0, <<>>)

\* output.choices[0].message.model_dump()
AssistantMsg(tool_calls) == Msg("assistant", None, <<>>, 0, tool_calls)

ToolMsg(tool_output, tool_call) ==
    Msg("tool", tool_output, tool_call.name, tool_call.id, <<>>)

RetryMsg == UserMsg("Please respond with a tool call")

\* --------------------------------------------------------- tool names
\* A name is the sequence of its segments, so that str.startswith is a
\* prefix test on sequences.
botmailroom_send_email == <<"botmailroom_", "send_email">>
web_search == <<"web_search">>
calculator == <<"calculator">>

ToolNames == {botmailroom_send_email, web_search, calculator}

startswith(s, prefix) ==
    /\ Len(s) >= Len(prefix)
    /\ SubSeq(s, 1, Len(prefix)) = prefix

\* ------------------------------------------------------------ payloads
\* EmailPayload: id, previous_emails (None, or the ids of the thread's
\* earlier emails, oldest first), thread_prompt.
\* An Optional[list] is <<>> for None and <<list>> for a list.
NoList == <<>>

SomeList(ids) == <<ids>>

Payloads ==
    { [id |-> "e1", previous_emails |-> NoList,
       thread_prompt |-> "p1"],
      [id |-> "e2", previous_emails |-> SomeList(<<"e1">>),
       thread_prompt |-> "p2"],
      [id |-> "e3", previous_emails |-> SomeList(<<>>),
       thread_prompt |-> "p3"] }

\* An HTTP request: whether its body parses as an EmailPayload, its
\* X-Signature header, and the payload the body stands for.
Signatures == {"valid", "invalid", "missing"}

Requests ==
    [body_ok : BOOLEAN, signature : Signatures, payload : Payloads]

NoRequest == [body_ok |-> FALSE, signature |-> "missing", payload |-> None]

VARIABLES
    max_response_cycles,         \* settings.max_response_cycles
    botmailroom_webhook_secret,  \* TRUE iff the setting is not None
    exa_client,                  \* TRUE iff exa_client is not None
    db,                          \* TRUE iff the global db is a connection
    chats,                       \* table chats: id -> chat_thread, or None
    responses,                   \* HTTP responses, one per request, in order
    last_request,                \* the request answered last
    tasks                        \* background tasks, in the order enqueued

vars == <<max_response_cycles, botmailroom_webhook_secret, exa_client, db,
          chats, responses, last_request, tasks>>

settings == <<max_response_cycles, botmailroom_webhook_secret, exa_client>>

\* ------------------------------------------------- conversation store
\* json.dumps / json.loads of a chat thread: the column holds the text,
\* not the list.
json_dumps(chat_thread) == [json |-> chat_thread]

json_loads(text) == text.json

\* CREATE TABLE IF NOT EXISTS chats (id VARCHAR PRIMARY KEY, chat_thread JSON)
chats_columns == {"id", "chat_thread"}

\* The table as the connection finds it: created empty, or already holding
\* the row of an earlier conversation.
StoredThread == <<system_prompt, UserMsg("p0")>>

ExistingTables ==
    { [id \in {} |-> json_dumps(<<>>)],
      [id \in {"e1"} |-> json_dumps(StoredThread)] }

\* SELECT * FROM chats WHERE id = ?  followed by fetchone(): the row's
\* chat_thread column, or no row.
select_chat(table, chat_id) ==
    IF chat_id \in DOMAIN table THEN <<table[chat_id]>> ELSE <<>>

\* UPDATE chats SET chat_thread = ? WHERE chat_id = ?
update_where_column == "chat_id"

update_raises == update_where_column \notin chats_columns

update_chat(table, text, chat_id) ==
    [id \in DOMAIN table |-> IF id = chat_id THEN text ELSE table[id]]

\* ------------------------------------------------------------ webhook
\* the dependency without the signature check
_validate_and_parse_email_unverified(request) == request.body_ok

\* TRUE iff the dependency returns a payload (it raises otherwise).
\* Without a secret the body is parsed; with one, the X-Signature header
\* is read (KeyError when missing) and verified before the body is parsed.
_validate_and_parse_email(request) ==
    IF ~botmailroom_webhook_secret
    THEN request.body_ok
    ELSE request.signature = "valid" /\ request.body_ok

\* the chat id taken from the email alone
chat_id_of_own_id(email_payload) == email_payload.id

\* chat_id of handle_email
chat_id_of(email_payload) ==
    IF /\ email_payload.previous_emails # NoList
       /\ Len(email_payload.previous_emails[1]) > 0
    THEN email_payload.previous_emails[1][1]
    ELSE email_payload.id

Finished == {"done", "raised"}

\* the handlings of the same thread that are over when handling i starts
EarlierHandlings(i) ==
    {j \in 1..Len(tasks) :
        /\ tasks[j].pc \in Finished
        /\ tasks[j].chat_id = chat_id_of(tasks[i].email)}

\* the endpoint running the handling itself up to the first model
\* invocation, instead of enqueueing it
add_task_inline(email_payload, request_no) ==
    [email         |-> email_payload,
     request       |-> request_no,
     pc            |-> "call",
     chat_id       |-> chat_id_of(email_payload),
     chat_thread   |-> <<system_prompt, UserMsg(email_payload.thread_prompt)>>,
     loaded        |-> <<system_prompt>>,
     cycle_count   |-> 1,
     end           |-> FALSE,
     calls         |-> << <<system_prompt,
                             UserMsg(email_payload.thread_prompt)>> >>,
     executed      |-> <<>>,
     started_after |-> {}]

\* background_tasks.add_task(handle_email, email_payload)
add_task(email_payload, request_no) ==
    [email         |-> email_payload,
     request       |-> request_no,
     pc            |-> "queued",
     chat_id       |-> None,
     chat_thread   |-> <<>>,
     loaded        |-> <<>>,
     cycle_count   |-> 0,
     end           |-> FALSE,
     calls         |-> <<>>,
     executed      |-> <<>>,
     started_after |-> {}]

\* --------------------------------------------------- handle_model_call
\* while cycle_count <= settings.max_response_cycles: cycle_count += 1 and
\* the completion request is sent with the thread as it is now; the
\* coroutine then waits for the answer (pc "call").
\* the loop without  cycle_count += 1
loop_head_no_increment(t) ==
    IF t.cycle_count <= max_response_cycles
    THEN [t EXCEPT !.calls = Append(@, t.chat_thread),
                   !.pc = "call"]
    ELSE [t EXCEPT !.pc = "done"]

loop_head(t) ==
    IF t.cycle_count <= max_response_cycles
    THEN [t EXCEPT !.cycle_count = @ + 1,
                   !.calls = Append(@, t.chat_thread),
                   !.pc = "call"]
    ELSE [t EXCEPT !.pc = "done"]

handle_model_call(t) ==
    loop_head([t EXCEPT !.cycle_count = 0, !.end = FALSE])

\* exa_search raises ValueError without a client
exa_search_raises == ~exa_client

append_tool_result(t, tool_output, tool_call) ==
    [t EXCEPT !.chat_thread = Append(@, ToolMsg(tool_output, tool_call)),
              !.executed = Append(@, tool_call)]

\* the dispatch skipping a tool it does not know
execute_tool_call_skip_unknown(t, tool_call) ==
    IF startswith(tool_call.name, <<"botmailroom_">>)
    THEN [append_tool_result(t, "email_sent", tool_call) EXCEPT !.end = TRUE]
    ELSE IF startswith(tool_call.name, <<"web_search">>)
    THEN IF exa_search_raises
         THEN [t EXCEPT !.pc = "raised"]
         ELSE append_tool_result(t, "search_results", tool_call)
    ELSE t

\* the dispatch answering an unknown tool with an error result
execute_tool_call_report_unknown(t, tool_call) ==
    IF startswith(tool_call.name, <<"botmailroom_">>)
    THEN [append_tool_result(t, "email_sent", tool_call) EXCEPT !.end = TRUE]
    ELSE IF startswith(tool_call.name, <<"web_search">>)
    THEN IF exa_search_raises
         THEN [t EXCEPT !.pc = "raised"]
         ELSE append_tool_result(t, "search_results", tool_call)
    ELSE append_tool_result(t, "unknown_tool", tool_call)

\* the dispatch without  end = True
execute_tool_call_no_end(t, tool_call) ==
    IF startswith(tool_call.name, <<"botmailroom_">>)
    THEN append_tool_result(t, "email_sent", tool_call)
    ELSE IF startswith(tool_call.name, <<"web_search">>)
    THEN IF exa_search_raises
         THEN [t EXCEPT !.pc = "raised"]
         ELSE append_tool_result(t, "search_results", tool_call)
    ELSE [t EXCEPT !.pc = "raised"]

\* body of  for tool_call in output.choices[0].message.tool_calls
execute_tool_call(t, tool_call) ==
    IF startswith(tool_call.name, <<"botmailroom_">>)
    THEN [append_tool_result(t, "email_sent", tool_call) EXCEPT !.end = TRUE]
    ELSE IF startswith(tool_call.name, <<"web_search">>)
    THEN IF exa_search_raises
         THEN [t EXCEPT !.pc = "raised"]
         ELSE append_tool_result(t, "search_results", tool_call)
    ELSE [t EXCEPT !.pc = "raised"]

\* the for loop left as soon as the email is sent
RECURSIVE run_tool_calls_break_on_end(_, _, _)
run_tool_calls_break_on_end(t, tool_calls, k) ==
    IF k > Len(tool_calls) \/ t.pc = "raised" \/ t.end
    THEN t
    ELSE run_tool_calls_break_on_end(execute_tool_call(t, tool_calls[k]),
                                     tool_calls, k + 1)

RECURSIVE run_tool_calls(_, _, _)
run_tool_calls(t, tool_calls, k) ==
    IF k > Len(tool_calls) \/ t.pc = "raised"
    THEN t
    ELSE run_tool_calls(execute_tool_call(t, tool_calls[k]), tool_calls, k + 1)

\* the retry request put in the place of the last message
iteration_body_replace_last(t, tool_calls) ==
    IF tool_calls # <<>>
    THEN run_tool_calls(
             [t EXCEPT !.chat_thread = Append(@, AssistantMsg(tool_calls))],
             tool_calls, 1)
    ELSE [t EXCEPT !.chat_thread =
                       Append(SubSeq(@, 1, Len(@) - 1), RetryMsg)]

\* if output.choices[0].message.tool_calls: ... else: ...
iteration_body(t, tool_calls) ==
    IF tool_calls # <<>>
    THEN run_tool_calls(
             [t EXCEPT !.chat_thread = Append(@, AssistantMsg(tool_calls))],
             tool_calls, 1)
    ELSE [t EXCEPT !.chat_thread = Append(@, RetryMsg)]

\* if end: break / if db: await db.execute(...)
after_iteration(t) ==
    IF t.pc = "raised" THEN t
    ELSE IF t.end THEN [t EXCEPT !.pc = "done"]
    ELSE IF db THEN [t EXCEPT !.pc = "update"]
    ELSE loop_head(t)

\* The answers the model can give in the cycle: no tool call, or up to
\* MaxCalls tool calls with names of its choice and ids of their own.
tool_call_id(cycle_count, k) == cycle_count * (MaxCalls + 1) + k

ModelOutputs(cycle_count) ==
    UNION { { [k \in 1..n |-> [id |-> tool_call_id(cycle_count, k),
                               name |-> names[k]]] :
              names \in [1..n -> ToolNames] } : n \in 0..MaxCalls }

\* --------------------------------------------------------- handle_email
\* the user message put in front of the loaded thread
append_and_run_prepend(t, thread) ==
    handle_model_call([t EXCEPT !.loaded = thread,
                                !.chat_thread =
                                    <<UserMsg(t.email.thread_prompt)>> \o thread])

\* chat_thread.append({"role": "user", ...}); await handle_model_call(...)
append_and_run(t, thread) ==
    handle_model_call([t EXCEPT !.loaded = thread,
                                !.chat_thread = Append(thread,
                                    UserMsg(t.email.thread_prompt))])

\* ---------------------------------------------------------------- Init
Init ==
    /\ max_response_cycles \in 0..MaxCycles
    /\ botmailroom_webhook_secret \in BOOLEAN
    /\ exa_client \in BOOLEAN
    /\ db = FALSE
    /\ chats = [id \in {} |-> json_dumps(<<>>)]
    /\ responses = <<>>
    /\ last_request = NoRequest
    /\ tasks = <<>>

\* ------------------------------------------------------------- actions
\* lifespan: connect and create the table if it does not exist.  It runs,
\* if at all, before the first request is served.
lifespan ==
    /\ ~db
    /\ responses = <<>>
    /\ db' = TRUE
    /\ chats' \in ExistingTables
    /\ UNCHANGED <<settings, responses, last_request, tasks>>

\* POST /receive-email: the dependency, then the endpoint body, which has
\* no await: it enqueues the task and returns the 204 response.
receive_email ==
    /\ Len(responses) < MaxRequests
    /\ \E request \in Requests :
          /\ last_request' = request
          /\ IF _validate_and_parse_email(request)
             THEN /\ tasks' = Append(tasks,
                        add_task(request.payload, Len(responses) + 1))
                  /\ responses' = Append(responses, "204")
             ELSE /\ responses' = Append(responses, "error")
                  /\ UNCHANGED tasks
    /\ UNCHANGED <<settings, db, chats>>

\* handle_email up to its first await
handle_email(i) ==
    /\ tasks[i].pc = "queued"
    /\ LET t == [tasks[i] EXCEPT !.chat_id = chat_id_of(tasks[i].email),
                                 !.started_after = EarlierHandlings(i)]
       IN tasks' = [tasks EXCEPT ![i] =
                       IF db THEN [t EXCEPT !.pc = "select"]
                       ELSE append_and_run(t, <<system_prompt>>)]
    /\ UNCHANGED <<settings, db, chats, responses, last_request>>

\* the SELECT and fetchone() return
select(i) ==
    /\ tasks[i].pc = "select"
    /\ LET result == select_chat(chats, tasks[i].chat_id)
       IN tasks' = [tasks EXCEPT ![i] =
                       append_and_run(@,
                           IF result # <<>> THEN json_loads(result[1])
                           ELSE <<system_prompt>>)]
    /\ UNCHANGED <<settings, db, chats, responses, last_request>>

\* the completion returns: the rest of the iteration up to the next await
model_call(i) ==
    /\ tasks[i].pc = "call"
    /\ \E tool_calls \in ModelOutputs(tasks[i].cycle_count) :
          tasks' = [tasks EXCEPT ![i] =
                       after_iteration(iteration_body(@, tool_calls))]
    /\ UNCHANGED <<settings, db, chats, responses, last_request>>

\* the write as an insert-or-replace
update_upsert(i) ==
    /\ tasks[i].pc = "update"
    /\ chats' = [id \in DOMAIN chats \cup {tasks[i].chat_id} |->
                    IF id = tasks[i].chat_id
                    THEN json_dumps(tasks[i].chat_thread)
                    ELSE chats[id]]
    /\ tasks' = [tasks EXCEPT ![i] = loop_head(@)]
    /\ UNCHANGED <<settings, db, responses, last_request>>

\* the UPDATE and commit return, or the UPDATE raises
update(i) ==
    /\ tasks[i].pc = "update"
    /\ IF update_raises
       THEN /\ tasks' = [tasks EXCEPT ![i].pc = "raised"]
            /\ UNCHANGED chats
       ELSE /\ chats' = update_chat(chats, json_dumps(tasks[i].chat_thread),
                                    tasks[i].chat_id)
            /\ tasks' = [tasks EXCEPT ![i] = loop_head(@)]
    /\ UNCHANGED <<settings, db, responses, last_request>>

\* the steps of background task i
TaskStep(i) ==
    /\ i <= Len(tasks)
    /\ (handle_email(i) \/ select(i) \/ model_call(i) \/ update(i))

Next ==
    \/ lifespan
    \/ receive_email
    \/ \E i \in 1..Len(tasks) : handle_email(i)
    \/ \E i \in 1..Len(tasks) : select(i)
    \/ \E i \in 1..Len(tasks) : model_call(i)
    \/ \E i \in 1..Len(tasks) : update(i)

Spec == Init /\ [][Next]_vars

\* The event loop keeps running while a coroutine is ready, and every
\* external call (store, model) returns.
FairSpec == Spec /\ WF_vars(\E i \in 1..MaxRequests : TaskStep(i))

\* ============================================================== claims
Tasks == 1..Len(tasks)

\* number of model invocations made so far for task i
Invocations(i) == Len(tasks[i].calls)

IsSendEmail(tool_call) == tool_call.name[1] = "botmailroom_"

SentEmail(t) == \E k \in 1..Len(t.executed) : IsSendEmail(t.executed[k])

\* C1: the number of model invocations made for one inbound email never
\* exceeds max_response_cycles.
C1_InvocationsWithinLimit ==
    \A i \in Tasks : Invocations(i) <= max_response_cycles

\* Steps a handling can still take: two per remaining iteration (the model
\* invocation and the store write), plus the start and the store read.
StepsLeft(t) ==
    CASE t.pc = "queued" -> 2 * (max_response_cycles + 1) + 2
      [] t.pc = "select" -> 2 * (max_response_cycles + 1) + 1
      [] t.pc = "call"   -> 2 * (max_response_cycles + 1 - t.cycle_count) + 2
      [] t.pc = "update" -> 2 * (max_response_cycles + 1 - t.cycle_count) + 1
      [] OTHER           -> 0

C2_Descent ==
    \A i \in Tasks :
        /\ StepsLeft(tasks[i]) >= 0
        /\ tasks'[i] # tasks[i] => StepsLeft(tasks'[i]) < StepsLeft(tasks[i])

C2_EndsBySignalOrExhaustion ==
    \A i \in Tasks :
        tasks[i].pc = "done" =>
            \/ tasks[i].end
            \/ tasks[i].cycle_count > max_response_cycles

C3_SendEmailIsTerminal ==
    [][\A i \in Tasks :
          SentEmail(tasks'[i]) => tasks'[i].calls = tasks[i].calls]_vars

\* an email was sent while cycles remained, and the handling is over
C3_Witness ==
    \E i \in Tasks :
        /\ SentEmail(tasks[i])
        /\ tasks[i].cycle_count <= max_response_cycles
        /\ tasks[i].pc = "done"

\* the messages handling t added to its thread: the user message, the
\* assistant tool-call messages, the tool results, the retry requests
HandlingMessages(t) ==
    SubSeq(t.chat_thread, Len(t.loaded) + 1, Len(t.chat_thread))

\* part occurs in thread as one run of consecutive messages
Contains(thread, part) ==
    \E off \in 0..(Len(thread) - Len(part)) :
        SubSeq(thread, off + 1, off + Len(part)) = part

\* C4: when the handling of an inbound email has finished, the store holds
\* under the thread's chat id the complete ordered message history of
\* that handling, the final iteration included.
C4_StoreHoldsHistory ==
    \A i \in Tasks :
        tasks[i].pc = "done" =>
            /\ tasks[i].chat_id \in DOMAIN chats
            /\ Contains(json_loads(chats[tasks[i].chat_id]),
                        HandlingMessages(tasks[i]))

IsFollowUp(email_payload) ==
    /\ email_payload.previous_emails # NoList
    /\ email_payload.previous_emails[1] # <<>>

\* C5: the first model invocation for a follow-up email that is handled
\* after an earlier handling of its thread has finished gets the messages
\* of the earlier handling, in order, followed by the follow-up's user
\* message.
C5_StateCarriesOver ==
    \A i \in Tasks :
        \A j \in tasks[i].started_after :
            ( /\ IsFollowUp(tasks[i].email)
              /\ tasks[j].pc = "done"
              /\ Invocations(i) >= 1 )
            => LET messages == tasks[i].calls[1]
               IN /\ messages[Len(messages)] =
                         UserMsg(tasks[i].email.thread_prompt)
                  /\ Contains(SubSeq(messages, 1, Len(messages) - 1),
                              HandlingMessages(tasks[j]))

\* the request passes the checks the configuration asks for
ValidRequest(request) ==
    /\ request.body_ok
    /\ botmailroom_webhook_secret => request.signature = "valid"

Answered == Len(responses') = Len(responses) + 1

C6_Enqueues ==
    (Answered /\ ValidRequest(last_request')) =>
        /\ responses'[Len(responses')] = "204"
        /\ Len(tasks') = Len(tasks) + 1
        /\ \A i \in Tasks : tasks'[i] = tasks[i]
        /\ LET t == tasks'[Len(tasks')]
           IN /\ t.email = last_request'.payload
              /\ t.request = Len(responses')
              /\ t.pc = "queued"
              /\ t.calls = <<>>
              /\ t.executed = <<>>

C6_OneTaskPerResponse ==
    /\ \A i \in Tasks :
           /\ tasks[i].request \in 1..Len(responses)
           /\ responses[tasks[i].request] = "204"
           /\ \A j \in Tasks : tasks[j].request = tasks[i].request => j = i
    /\ \A r \in 1..Len(responses) :
           responses[r] = "204" => \E i \in Tasks : tasks[i].request = r

\* C6: for every valid payload receive_email enqueues exactly one handling
\* task and produces its 204 response in the same step, before any model
\* invocation or tool execution of that handling and without any other
\* handling moving; every handling has its 204 response whatever its loop
\* does.
C6_RespondsBeforeHandling ==
    /\ [][C6_Enqueues]_vars
    /\ []C6_OneTaskPerResponse

\* a handling whose request was answered has invoked the model and ended
C6_Witness ==
    \E i \in Tasks :
        /\ responses[tasks[i].request] = "204"
        /\ Invocations(i) >= 1
        /\ tasks[i].pc \in Finished

\* every assistant tool-call message of the list is followed by the
\* results of its calls, one per call and in their order
ToolResultsComplete(messages) ==
    \A p \in 1..Len(messages) :
        (messages[p].role = "assistant" /\ messages[p].tool_calls # <<>>) =>
            LET tool_calls == messages[p].tool_calls
                n == Len(tool_calls)
            IN /\ p + n <= Len(messages)
               /\ \A k \in 1..n :
                      /\ messages[p + k].role = "tool"
                      /\ messages[p + k].tool_call_id = tool_calls[k].id
                      /\ messages[p + k].name = tool_calls[k].name
               /\ p + n < Len(messages) => messages[p + n + 1].role # "tool"

\* C7: at every model invocation, each assistant message with tool calls
\* in the history is immediately followed by exactly one tool-role
\* message per tool call, in the order of the calls, with that call's
\* tool_call_id and name.
C7_ToolResultsAppended ==
    \A i \in Tasks :
        \A c \in 1..Invocations(i) : ToolResultsComplete(tasks[i].calls[c])

\* a second invocation sees a response that asked for two tools
C7_Witness ==
    \E i \in Tasks :
        /\ Invocations(i) >= 2
        /\ \E p \in 1..Len(tasks[i].calls[2]) :
               /\ tasks[i].calls[2][p].role = "assistant"
               /\ Len(tasks[i].calls[2][p].tool_calls) = 2

\* C8: at the first model invocation for an inbound email the last message
\* is the user message with the email's thread prompt, and the messages
\* loaded from the store (the system prompt for a new thread) precede it
\* unchanged.
C8_IncomingMessageLast ==
    \A i \in Tasks :
        Invocations(i) >= 1 =>
            LET messages == tasks[i].calls[1]
                stored == db /\ tasks[i].chat_id \in DOMAIN chats
            IN /\ messages[Len(messages)] =
                      UserMsg(tasks[i].email.thread_prompt)
               /\ SubSeq(messages, 1, Len(messages) - 1) = tasks[i].loaded
               /\ stored =>
                      tasks[i].loaded = json_loads(chats[tasks[i].chat_id])
               /\ ~stored => tasks[i].loaded = <<system_prompt>>

\* the first invocation of a handling whose thread was in the store
C8_Witness ==
    \E i \in Tasks :
        /\ Invocations(i) >= 1
        /\ tasks[i].chat_id \in DOMAIN chats
        /\ Len(tasks[i].calls[1]) = Len(StoredThread) + 1

\* the checks the configuration asks for reject the request
ValidationFails(request) ==
    IF botmailroom_webhook_secret
    THEN request.signature # "valid" \/ ~request.body_ok
    ELSE ~request.body_ok

C9_Rejects ==
    (Answered /\ ValidationFails(last_request')) =>
        /\ responses'[Len(responses')] = "error"
        /\ tasks' = tasks
        /\ chats' = chats

\* C9: when the validation of a request fails, no background task is
\* enqueued, no model invocation and no tool execution occur and the store
\* is unchanged; every task there is belongs to a request that was
\* accepted.
C9_InvalidRequestIgnored ==
    /\ [][C9_Rejects]_vars
    /\ [](\A i \in Tasks : responses[tasks[i].request] # "error")

\* a request with a bad signature was rejected under a configured secret
C9_Witness ==
    /\ botmailroom_webhook_secret
    /\ responses # <<>>
    /\ responses[Len(responses)] = "error"
    /\ last_request.body_ok
    /\ last_request.signature = "invalid"

IsUnknownTool(tool_call) ==
    tool_call.name[1] \notin {"botmailroom_", "web_search"}

\* the position of the first tool call with an unknown name, 0 if none
FirstUnknown(tool_calls) ==
    IF \E k \in 1..Len(tool_calls) : IsUnknownTool(tool_calls[k])
    THEN CHOOSE k \in 1..Len(tool_calls) :
             /\ IsUnknownTool(tool_calls[k])
             /\ \A m \in 1..(k - 1) : ~IsUnknownTool(tool_calls[m])
    ELSE 0

C10_Aborts ==
    \A i \in Tasks :
        /\ tasks[i].pc = "raised" => tasks'[i] = tasks[i]
        /\ (tasks[i].pc = "call" /\ tasks'[i] # tasks[i]) =>
              LET answer == tasks'[i].chat_thread[Len(tasks[i].chat_thread) + 1]
                  k0 == FirstUnknown(answer.tool_calls)
                  ran == SubSeq(tasks'[i].executed,
                                Len(tasks[i].executed) + 1,
                                Len(tasks'[i].executed))
              IN k0 > 0 =>
                    /\ tasks'[i].pc = "raised"
                    /\ Len(ran) < k0
                    /\ \A m \in 1..Len(ran) : ran[m] = answer.tool_calls[m]
                    /\ tasks'[i].calls = tasks[i].calls
                    /\ chats' = chats

\* C10: a tool call whose name starts with neither "botmailroom_" nor
\* "web_search" raises an error that aborts the handling: that call and
\* the later calls of the response are not executed, no further model
\* invocation is made and the store is not written.
C10_UnknownToolAborts == [][C10_Aborts]_vars

\* a response of two calls whose first is unknown aborted the handling
\* while cycles remained
C10_Witness ==
    \E i \in Tasks :
        /\ tasks[i].pc = "raised"
        /\ tasks[i].cycle_count <= max_response_cycles
        /\ LET answer == tasks[i].chat_thread[Len(tasks[i].chat_thread)]
           IN /\ answer.role = "assistant"
              /\ Len(answer.tool_calls) = 2
              /\ IsUnknownTool(answer.tool_calls[1])

\* handlings i and j ran side by side: neither started after the other
\* had finished
Overlap(i, j) ==
    /\ i # j
    /\ tasks[i].chat_id = tasks[j].chat_id
    /\ i \notin tasks[j].started_after
    /\ j \notin tasks[i].started_after

\* C11: when two emails of one thread are handled by tasks whose steps
\* interleave, the history stored after both have finished contains the
\* user messages of both emails.
C11_BothMessagesStored ==
    \A i, j \in Tasks :
        ( /\ Overlap(i, j)
          /\ tasks[i].pc = "done"
          /\ tasks[j].pc = "done" )
        => /\ tasks[i].chat_id \in DOMAIN chats
           /\ \A k \in {i, j} :
                  Contains(json_loads(chats[tasks[i].chat_id]),
                           <<UserMsg(tasks[k].email.thread_prompt)>>)

\* C12: the chat id of an inbound email is the id of the first element of
\* previous_emails when that list is present and not empty, and the
\* email's own id otherwise; a follow-up whose first previous email is the
\* opening email of the thread has the chat id the opening email has.
C12_ChatIdIsThread ==
    \A i \in Tasks :
        tasks[i].pc # "queued" =>
            LET email == tasks[i].email
            IN /\ IsFollowUp(email) =>
                      tasks[i].chat_id = Head(email.previous_emails[1])
               /\ ~IsFollowUp(email) => tasks[i].chat_id = email.id
               /\ \A j \in Tasks :
                      ( /\ tasks[j].pc # "queued"
                        /\ ~IsFollowUp(tasks[j].email)
                        /\ IsFollowUp(email)
                        /\ Head(email.previous_emails[1]) = tasks[j].email.id )
                      => tasks[i].chat_id = tasks[j].chat_id

\* an opening email and a follow-up of it are both being handled under
\* the opening email's id
C12_Witness ==
    \E i, j \in Tasks :
        /\ IsFollowUp(tasks[i].email)
        /\ ~IsFollowUp(tasks[j].email)
        /\ tasks[i].pc # "queued"
        /\ tasks[j].pc # "queued"
        /\ tasks[i].chat_id = tasks[j].email.id

Last(seq) == seq[Len(seq)]

\* the message the step of handling i appends first: the model's answer
\* (its tool-call message), or the retry request
Answer(i) == tasks'[i].chat_thread[Len(tasks[i].chat_thread) + 1]

\* the tool calls the step of handling i executes
Ran(i) ==
    SubSeq(tasks'[i].executed, Len(tasks[i].executed) + 1,
           Len(tasks'[i].executed))

ModelAnswers(i) == tasks[i].pc = "call" /\ tasks'[i] # tasks[i]

C13_Retry ==
    \A i \in Tasks :
        (ModelAnswers(i) /\ Answer(i).role # "assistant") =>
            /\ tasks'[i].executed = tasks[i].executed
            /\ tasks'[i].chat_thread = Append(tasks[i].chat_thread, RetryMsg)
            /\ tasks'[i].pc # "raised"

\* cycles remain while fewer than max_response_cycles iterations are made
C13_FollowsIffCyclesRemain ==
    \A i \in Tasks :
        /\ tasks[i].cycle_count = Invocations(i)
        /\ \A c \in 2..Invocations(i) :
               Last(tasks[i].calls[c]) = RetryMsg => c - 1 < max_response_cycles
        /\ ( /\ tasks[i].pc \in Finished
             /\ tasks[i].chat_thread # <<>>
             /\ Last(tasks[i].chat_thread) = RetryMsg )
           => Invocations(i) >= max_response_cycles

\* C13: a model response without tool calls is a retry, not a stop: no
\* tool is executed, exactly the user message "Please respond with a tool
\* call" is appended, the iteration counts toward the cycle limit, and
\* another model invocation follows if and only if cycles remain.
C13_RetryNotStop ==
    /\ [][C13_Retry]_vars
    /\ []C13_FollowsIffCyclesRemain

\* the execution of the tool call raises
Raises(tool_call) ==
    \/ IsUnknownTool(tool_call)
    \/ tool_call.name[1] = "web_search" /\ ~exa_client

\* the position of the first tool call that raises, 0 if none
FirstRaising(tool_calls) ==
    IF \E k \in 1..Len(tool_calls) : Raises(tool_calls[k])
    THEN CHOOSE k \in 1..Len(tool_calls) :
             /\ Raises(tool_calls[k])
             /\ \A m \in 1..(k - 1) : ~Raises(tool_calls[m])
    ELSE 0

\* the step of handling i executes the first n calls of the answer, in
\* order, and appends the answer and one result per executed call
ExecutesFirst(i, n) ==
    LET tool_calls == Answer(i).tool_calls
        before == Len(tasks[i].chat_thread)
    IN /\ Ran(i) = SubSeq(tool_calls, 1, n)
       /\ Len(tasks'[i].chat_thread) = before + 1 + n
       /\ SubSeq(tasks'[i].chat_thread, 1, before) = tasks[i].chat_thread
       /\ \A k \in 1..n :
              LET result == tasks'[i].chat_thread[before + 1 + k]
              IN /\ result.role = "tool"
                 /\ result.tool_call_id = tool_calls[k].id
                 /\ result.name = tool_calls[k].name

\* C14 as stated: every tool call contained in one model response is
\* executed in order and its result appended before the loop exits,
\* including the calls listed after a send-email call.
C14_AllToolCallsExecuted ==
    [][\A i \in Tasks :
          (ModelAnswers(i) /\ Answer(i).role = "assistant") =>
              /\ ExecutesFirst(i, Len(Answer(i).tool_calls))
              /\ tasks'[i].pc # "raised"]_vars

\* C14 (amended): the tool calls of one model response are executed in
\* order, each result appended before the loop exits, the calls listed
\* after a send-email call included, up to the first call whose execution
\* raises: that call and the later ones are not executed and the handling
\* is aborted.
C14_ToolCallsExecutedUntilRaise ==
    [][\A i \in Tasks :
          (ModelAnswers(i) /\ Answer(i).role = "assistant") =>
              LET r == FirstRaising(Answer(i).tool_calls)
              IN IF r = 0
                 THEN /\ ExecutesFirst(i, Len(Answer(i).tool_calls))
                      /\ tasks'[i].pc # "raised"
                 ELSE /\ ExecutesFirst(i, r - 1)
                      /\ tasks'[i].pc = "raised"]_vars

\* a response asked for send-email and then web-search: both were
\* executed before the loop ended
C14_Witness ==
    \E i \in Tasks :
        /\ tasks[i].pc = "done"
        /\ Len(tasks[i].executed) = 2
        /\ IsSendEmail(tasks[i].executed[1])
        /\ tasks[i].executed[2].name = web_search
        /\ Last(tasks[i].chat_thread).role = "tool"
        /\ Last(tasks[i].chat_thread).name = web_search

\* C15: handling an email never adds a key to the conversation store: a
\* chat id without a row before a step of a handling has none after it.
C15_NoKeyAdded ==
    [][(\E i \in Tasks : tasks'[i] # tasks[i]) =>
           DOMAIN chats' = DOMAIN chats]_vars

\* with a connection, a handling of a thread without a row went through
\* its store write and is over, and the thread still has no row
C15_Witness ==
    /\ db
    /\ \E i \in Tasks :
           /\ tasks[i].pc = "raised"
           /\ ~tasks[i].end
           /\ Last(tasks[i].chat_thread) = RetryMsg
           /\ tasks[i].chat_id \notin DOMAIN chats

IsPrefix(s, t) == Len(s) <= Len(t) /\ SubSeq(t, 1, Len(s)) = s

\* C16: within one handling the message history is append-only: the list
\* passed to an invocation is a prefix of the list passed to the next and
\* of the thread as it is now, and for a new thread its first element is
\* the system prompt.
C16_AppendOnly ==
    \A i \in Tasks :
        /\ \A c \in 1..(Invocations(i) - 1) :
               IsPrefix(tasks[i].calls[c], tasks[i].calls[c + 1])
        /\ \A c \in 1..Invocations(i) :
               /\ IsPrefix(tasks[i].calls[c], tasks[i].chat_thread)
               /\ ~(db /\ tasks[i].chat_id \in DOMAIN chats) =>
                      tasks[i].calls[c][1] = system_prompt

\* a second invocation for a new thread got a longer list than the first
C16_Witness ==
    \E i \in Tasks :
        /\ Invocations(i) >= 2
        /\ tasks[i].chat_id \notin DOMAIN chats
        /\ Len(tasks[i].calls[2]) > Len(tasks[i].calls[1])

====
